---- MODULE Spec2Model ----
(***************************************************************************)
(* Multi-instance coordination layer of the clinic messenger:              *)
(* src/server/index.js (socket handlers, relay handler) and                *)
(* src/unnamed/part_000 (RedisManager: publish/subscribe, registry,        *)
(* room statistics).                                                       *)
(*                                                                         *)
(* Every `await` on a backend call is a suspension point: the step that    *)
(* reaches it runs the synchronous code up to it and issues the backend    *)
(* command (whose effect on the backend, or whose failure, is decided      *)
(* there); a later step resumes the handler with the result.               *)
(***************************************************************************)
EXTENDS Naturals, Sequences, FiniteSets, Bags, TLC

\* ------------------------------------------------------------------ bounds
\* external events in one run: client events (join, send, typing,
\* disconnect) and key expiries
MaxOps == 2
\* backend commands that fail in one run
MaxFailures == 1

\* storeConnection: `setex(key, 3600, value)`, seconds
TTL == 3600

\* ---------------------------------------------------------------- topology
\* Two server processes; sockets a1, a2 terminate on alpha, b1 on beta.
Servers == {"alpha", "beta"}
Sockets == {"a1", "a2", "b1"}
ServerOf(c) == IF c \in {"a1", "a2"} THEN "alpha" ELSE "beta"
SocketsOf(s) == {c \in Sockets : ServerOf(c) = s}

\* process.env.SERVER_ID: set for alpha, unset for beta.
Unset == "<unset>"
EnvServerId(s) == IF s = "alpha" THEN "alpha" ELSE Unset
\* index.js: SERVER_ID = process.env.SERVER_ID || `server-${random}`
SERVER_ID(s) == IF EnvServerId(s) # Unset THEN EnvServerId(s) ELSE "server-k3x9q"
\* redis-manager storeConnection: process.env.SERVER_ID || "server-1"
StoredServerId(s) == IF EnvServerId(s) # Unset THEN EnvServerId(s) ELSE "server-1"

\* ------------------------------------------------------------------ values
\* A string that is split on ":" is kept as the sequence of its ":"-separated
\* pieces: "R" is <<"R">>, "R:x" is <<"R", "x">>.  A missing (undefined or
\* empty) field is Missing.
Missing == <<>>
Rooms == {<<"R">>, <<"R", "x">>}
\* The user behind each socket: u1 has two tabs open on alpha.
UserOf(c) == IF c = "b1" THEN "u2" ELSE "u1"
Names == {"n"}
JoinInputs(c) ==
  [userId : {UserOf(c), ""}, roomId : Rooms \cup {Missing}, userName : Names \cup {""}]

\* GET /rooms/:roomId/stats: two requests may be in progress at a time.
Requests == {"q1", "q2"}

\* Message content is a sequence of characters.
Contents == {<<>>, <<" ">>, <<"h">>, <<" ", "h">>}
NoType == "<undefined>"
SendInputs == [content : Contents, type : {NoType, "user_joined"}]

\* String.prototype.trim
RECURSIVE TrimLeft(_)
TrimLeft(str) ==
  IF str # <<>> /\ Head(str) = " " THEN TrimLeft(Tail(str)) ELSE str
RECURSIVE TrimRight(_)
TrimRight(str) ==
  IF str # <<>> /\ str[Len(str)] = " " THEN TrimRight(SubSeq(str, 1, Len(str) - 1)) ELSE str
Trim(str) == TrimRight(TrimLeft(str))

\* publishToRoom / subscribeToRoom: channel = `room:${roomId}`
ChannelOf(roomId) == <<"room">> \o roomId
\* relay handler: roomId = channel.split(":")[1]
RoomOfChannel(channel) == <<channel[2]>>

VARIABLES
  connected,          \* socket -> the client connection is open
  rooms,              \* socket -> Socket.IO rooms the socket has joined
  activeConnections,  \* socket -> ConnectionInfo held by its server, or NoConn
  subscribedRooms,    \* server -> set of roomIds (index.js subscribedRooms)
  listeners,          \* server -> "message" listeners of the subscriber connection
  backendSubs,        \* server -> channels its subscriber connection is subscribed to
  registry,           \* backend key/value store: socket -> value, or NoValue
  inbox,              \* server -> channel messages delivered by the backend, in order
  join,               \* socket -> state of its join_room handler
  send,               \* socket -> state of its send_message handler
  disc,               \* socket -> state of its disconnect handler
  stats,              \* request -> state of its GET /rooms/:roomId/stats handler
  emitted,            \* socket -> bag of events the server emitted to that socket
  pubLog,             \* set of publish calls made (envelope, result)
  subscribeCalls,     \* server -> channel -> number of backend subscribe calls
  deliveries,         \* server -> set of (channel, handler invocations) seen per message
  seq,                \* socket -> number of envelopes created by its handlers
  budget              \* counters that bound the run

vars == <<connected, rooms, activeConnections, subscribedRooms, listeners, backendSubs,
          registry, inbox, join, send, disc, stats, emitted, pubLog, subscribeCalls,
          deliveries, seq, budget>>

NoConn == [userId |-> "", roomId |-> Missing, userName |-> ""]
\* A registry key holds no value (NoValue), the JSON text written by
\* storeConnection (parses), or text that JSON.parse rejects (CorruptValue).
\* ttl is the expiry set on the key; expired marks a key whose expiry elapsed.
NoValue == [userId |-> "", roomId |-> Missing, userName |-> "", serverId |-> "", timestamp |-> "",
            present |-> FALSE, parses |-> FALSE, ttl |-> 0, expired |-> FALSE]
CorruptValue == [NoValue EXCEPT !.present = TRUE]
\* getRoomStats locals: keys still to visit, keys visited (in order), userIds,
\* roomUserCount, users; failed = the outer catch was taken; bad = the key the
\* inner catch is about to delete; faults = backend commands of this call
\* that failed
NoScan == [todo |-> {}, order |-> <<>>, userIds |-> {}, userCount |-> 0, users |-> <<>>,
           failed |-> FALSE, bad |-> "", faults |-> 0]
IdleJoin == [pc |-> "idle", userId |-> "", roomId |-> Missing, userName |-> "", scan |-> NoScan]
NoEnvelope == [type |-> "", userId |-> "", userName |-> "", roomId |-> Missing, serverId |-> "",
               sock |-> "", seq |-> 0, content |-> <<>>, userCount |-> 0, isTyping |-> FALSE,
               timestamp |-> ""]
IdleSend == [pc |-> "idle", message |-> NoEnvelope, published |-> FALSE]
IdleDisc == [pc |-> "idle", userId |-> "", roomId |-> Missing, userName |-> "", scan |-> NoScan]
\* counts and steady record what the registry held while the request ran:
\* the numbers of distinct users of the room at each moment since the key
\* listing, and the users that had an entry in the room at all those moments.
IdleStats == [pc |-> "idle", roomId |-> Missing, scan |-> NoScan, counts |-> {}, steady |-> {}]

\* ------------------------------------------------------- backend primitives
\* A backend command either takes effect or fails (connection down, command
\* rejected); the number of failures in a run is bounded.
Outcomes == IF budget.failures < MaxFailures THEN {TRUE, FALSE} ELSE {TRUE}
Cost(ok) == IF ok THEN 0 ELSE 1

\* JSON.stringify followed by JSON.parse: a Date becomes its ISO string.
JsonRoundTrip(message) ==
  [message EXCEPT !.timestamp = IF @ = "Date" THEN "ISO" ELSE @]

\* publisher.publish(channel, messageStr): the backend hands the message to
\* every subscriber connection subscribed to the channel.
PublishToRoom(inb, roomId, message, ok) ==
  IF ok
  THEN [s \in Servers |->
          IF ChannelOf(roomId) \in backendSubs[s]
          THEN Append(inb[s], [channel |-> ChannelOf(roomId), message |-> JsonRoundTrip(message)])
          ELSE inb[s]]
  ELSE inb

\* subscribeToRoom: `if (!this.subscriber.listenerCount("message"))`
NeedsListener_Always(s) == TRUE
NeedsListener(s) == Len(listeners[s]) = 0

\* storeConnection: `timestamp: new Date().toISOString()`; the entries of
\* different sockets are stored at different times
StoredAt(c) == c

\* storeConnection: value written under connection:<socketId>
RegistryValue(c, info) ==
  [userId |-> info.userId, roomId |-> info.roomId, userName |-> info.userName,
   serverId |-> StoredServerId(ServerOf(c)), timestamp |-> StoredAt(c),
   present |-> TRUE, parses |-> TRUE, ttl |-> TTL, expired |-> FALSE]

\* client.setex(key, 3600, value) with key = `connection:${socketId}`
Stored_KeyPerServer(reg, c, v) ==
  [k \in Sockets |-> IF ServerOf(k) = ServerOf(c) THEN v ELSE reg[k]]
Stored(reg, c, v) == [reg EXCEPT ![c] = v]

\* client.del(key)
Deleted_Not(reg, k) == reg
Deleted(reg, k) == [reg EXCEPT ![k] = NoValue]

\* the backend drops a key whose expiry has elapsed
Expired_Kept(v) == [v EXCEPT !.expired = TRUE]
Expired(v) == [NoValue EXCEPT !.expired = TRUE]

\* ------------------------------------------------------------- room stats
\* getRoomStats: client.keys("connection:*")
ScanStart(ok) ==
  IF ok
  THEN [NoScan EXCEPT !.todo = {k \in Sockets : registry[k].present}]
  ELSE [NoScan EXCEPT !.failed = TRUE, !.faults = 1]

\* getRoomStats loop body for one key: client.get(key), then count the
\* connection if it is in the room and its user was not seen yet.  A get
\* that throws lands in the inner catch, which deletes the key.
RosterItem(v) ==
  [userId |-> v.userId, userName |-> v.userName, serverId |-> v.serverId,
   joinedAt |-> v.timestamp]
\* `connection.roomId === roomId && !userIds.has(connection.userId)`
Counts_NoDedup(sc, v, roomId) == v.roomId = roomId
Counts(sc, v, roomId) == v.roomId = roomId /\ v.userId \notin sc.userIds
ScanGet(sc, k, ok, roomId) ==
  LET v == registry[k]
      rest == [sc EXCEPT !.todo = @ \ {k}, !.order = Append(@, k)]
  IN  IF ~ok THEN [rest EXCEPT !.bad = k, !.faults = @ + 1]
      ELSE IF ~v.present THEN rest
      ELSE IF ~v.parses THEN [rest EXCEPT !.bad = k]
      ELSE IF Counts(sc, v, roomId)
      THEN [rest EXCEPT !.userCount = @ + 1, !.userIds = @ \cup {v.userId},
                        !.users = Append(@, RosterItem(v))]
      ELSE rest

\* inner catch: client.del(key); a failing del reaches the outer catch.
ScanDel(sc, ok) ==
  IF ok THEN [sc EXCEPT !.bad = ""]
  ELSE [sc EXCEPT !.bad = "", !.todo = {}, !.failed = TRUE, !.faults = @ + 1]

ScanDone(sc) == sc.bad = "" /\ (sc.todo = {} \/ sc.failed)
\* roomStats.userCount as returned (the outer catch returns 0)
UserCountOf(sc) == IF sc.failed THEN 0 ELSE sc.userCount
\* roomStats.users as returned
RosterOf(sc) == IF sc.failed THEN <<>> ELSE sc.users

\* ----------------------------------------------------------------- events
RoomMembers(s, roomId) == {c \in SocketsOf(s) : connected[c] /\ roomId \in rooms[c]}

Emit(em, targets, e) ==
  [c \in Sockets |-> IF c \in targets THEN em[c] (+) SetToBag({e}) ELSE em[c]]

ErrorEvent(text) == [ev |-> "error", room |-> Missing, data |-> NoEnvelope, text |-> text]
JoinedRoomEvent(c, roomId) ==
  [ev |-> "joined_room", room |-> Missing,
   data |-> [NoEnvelope EXCEPT !.roomId = roomId, !.serverId = SERVER_ID(ServerOf(c)), !.sock = c],
   text |-> "Successfully joined"]
NewMessageEvent(roomId, message) ==
  [ev |-> "new_message", room |-> roomId, data |-> message, text |-> ""]

Envelope(c, type, info) ==
  [NoEnvelope EXCEPT !.type = type, !.userId = info.userId, !.userName = info.userName,
                     !.roomId = info.roomId, !.serverId = SERVER_ID(ServerOf(c)),
                     !.sock = c, !.seq = seq[c] + 1, !.timestamp = "Date"]

\* joined_room has been emitted to socket c for roomId
Acked(c, roomId) == CopiesIn(JoinedRoomEvent(c, roomId), emitted[c]) >= 1

\* The log of publish calls: the envelope, the result, the sockets that
\* were confirmed members of the envelope's room when the call was made, and
\* whether the envelope carries the count of a getRoomStats call that ended
\* in its outer catch.
LoggedWith(message, ok, statsFailed) ==
  pubLog \cup {[envelope |-> message, ok |-> ok,
                audience |-> {c \in Sockets : /\ connected[c]
                                              /\ message.roomId \in rooms[c]
                                              /\ Acked(c, message.roomId)},
                statsFailed |-> statsFailed]}
Logged(message, ok) == LoggedWith(message, ok, FALSE)

Channels == {ChannelOf(r) : r \in Rooms}

Init ==
  /\ connected = [c \in Sockets |-> TRUE]
  /\ rooms = [c \in Sockets |-> {}]
  /\ activeConnections = [c \in Sockets |-> NoConn]
  /\ subscribedRooms = [s \in Servers |-> {}]
  \* setupRedisMessageHandler() has run: one relay listener is attached.
  /\ listeners = [s \in Servers |-> <<"relay">>]
  /\ backendSubs = [s \in Servers |-> {}]
  /\ registry = [c \in Sockets |-> NoValue]
  /\ inbox = [s \in Servers |-> <<>>]
  /\ join = [c \in Sockets |-> IdleJoin]
  /\ send = [c \in Sockets |-> IdleSend]
  /\ disc = [c \in Sockets |-> IdleDisc]
  /\ stats = [q \in Requests |-> IdleStats]
  /\ emitted = [c \in Sockets |-> EmptyBag]
  /\ pubLog = {}
  /\ subscribeCalls = [s \in Servers |-> [ch \in Channels |-> 0]]
  /\ deliveries = [s \in Servers |-> {}]
  /\ seq = [c \in Sockets |-> 0]
  /\ budget = [ops |-> 0, failures |-> 0]


\* ------------------------------------------- getRoomStats, between awaits
\* getRoomStats runs inside the join_room handler (h = "join") or the
\* disconnect handler (h = "disc") of a socket c, or inside the handler of a
\* GET /rooms/:roomId/stats request c (h = "http").
Callers == (Sockets \X {"join", "disc"}) \cup (Requests \X {"http"})
\* The users a getRoomStats call counts when every key is read at one moment.
UsersIn(reg, roomId) ==
  {reg[k].userId : k \in {e \in Sockets : /\ reg[e].present /\ reg[e].parses
                                          /\ reg[e].roomId = roomId}}
\* The registry became reg while the requests of st were running.
Observe(st, reg) ==
  [q \in Requests |->
     IF st[q].pc = "scan"
     THEN [st[q] EXCEPT !.counts = @ \cup {Cardinality(UsersIn(reg, st[q].roomId))},
                        !.steady = @ \cap UsersIn(reg, st[q].roomId)]
     ELSE st[q]]
Caller(c, h) == IF h = "join" THEN join[c] ELSE IF h = "disc" THEN disc[c] ELSE stats[c]
SetScan(c, h, sc, reg) ==
  /\ join' = IF h = "join" THEN [join EXCEPT ![c].scan = sc] ELSE join
  /\ disc' = IF h = "disc" THEN [disc EXCEPT ![c].scan = sc] ELSE disc
  /\ stats' = Observe(IF h = "http" THEN [stats EXCEPT ![c].scan = sc] ELSE stats, reg)

\* next `await this.client.get(key)`; client.keys() lists the keys in no
\* particular order
StatsGet(c, h) ==
  /\ Caller(c, h).pc = "scan"
  /\ ~ScanDone(Caller(c, h).scan)
  /\ Caller(c, h).scan.bad = ""
  /\ \E k \in Caller(c, h).scan.todo, ok \in Outcomes :
       /\ SetScan(c, h, ScanGet(Caller(c, h).scan, k, ok, Caller(c, h).roomId), registry)
       /\ budget' = [budget EXCEPT !.failures = @ + Cost(ok)]
  /\ UNCHANGED <<connected, rooms, activeConnections, subscribedRooms, listeners, backendSubs,
                 registry, inbox, send, emitted, pubLog, subscribeCalls, deliveries, seq>>

\* inner catch: `await this.client.del(key)`
StatsDel(c, h) ==
  /\ Caller(c, h).pc = "scan"
  /\ Caller(c, h).scan.bad # ""
  /\ \E ok \in Outcomes :
       /\ registry' = IF ok THEN Deleted(registry, Caller(c, h).scan.bad) ELSE registry
       /\ SetScan(c, h, ScanDel(Caller(c, h).scan, ok), registry')
       /\ budget' = [budget EXCEPT !.failures = @ + Cost(ok)]
  /\ UNCHANGED <<connected, rooms, activeConnections, subscribedRooms, listeners, backendSubs,
                 inbox, send, emitted, pubLog, subscribeCalls, deliveries, seq>>

\* ------------------------------------------------ GET /rooms/:roomId/stats
\* the request handler up to `await redisManager.getRoomStats(roomId)`
StatsRequest(q, roomId) ==
  /\ stats[q].pc = "idle"
  /\ \E ok \in Outcomes :
       /\ stats' = [stats EXCEPT ![q] = [pc |-> "scan", roomId |-> roomId, scan |-> ScanStart(ok),
                                          counts |-> {Cardinality(UsersIn(registry, roomId))},
                                          steady |-> UsersIn(registry, roomId)]]
       /\ budget' = [budget EXCEPT !.failures = @ + Cost(ok)]
  /\ UNCHANGED <<connected, rooms, activeConnections, subscribedRooms, listeners, backendSubs,
                 registry, inbox, join, send, disc, emitted, pubLog, subscribeCalls, deliveries,
                 seq>>

\* `res.json(stats)`
StatsRespond(q) ==
  /\ stats[q].pc = "scan"
  /\ ScanDone(stats[q].scan)
  /\ stats' = [stats EXCEPT ![q].pc = "done"]
  /\ UNCHANGED <<connected, rooms, activeConnections, subscribedRooms, listeners, backendSubs,
                 registry, inbox, join, send, disc, emitted, pubLog, subscribeCalls, deliveries,
                 seq, budget>>

\* ------------------------------------------------------------- key expiry
\* the expiry of key connection:<k> elapses at the backend
Expire(k) ==
  /\ registry[k].present
  /\ registry[k].ttl > 0
  /\ budget.ops < MaxOps
  /\ registry' = [registry EXCEPT ![k] = Expired(@)]
  /\ stats' = Observe(stats, registry')
  /\ budget' = [budget EXCEPT !.ops = @ + 1]
  /\ UNCHANGED <<connected, rooms, activeConnections, subscribedRooms, listeners, backendSubs,
                 inbox, join, send, disc, emitted, pubLog, subscribeCalls, deliveries, seq>>

\* ------------------------------------------------------------ join_room
\* `if (!userId || !roomId || !userName)`
JoinRejected_NoNameCheck(d) == d.userId = "" \/ d.roomId = Missing
JoinRejected(d) == d.userId = "" \/ d.roomId = Missing \/ d.userName = ""

\* join_room up to `await redisManager.storeConnection(...)`
JoinRoom(c, d) ==
  /\ connected[c]
  /\ join[c].pc = "idle"
  /\ budget.ops < MaxOps
  /\ IF JoinRejected(d)
     THEN /\ emitted' = Emit(emitted, {c}, ErrorEvent("Missing required fields"))
          /\ budget' = [budget EXCEPT !.ops = @ + 1]
          /\ UNCHANGED <<activeConnections, registry, join>>
     ELSE \E ok \in Outcomes :
          /\ activeConnections' = [activeConnections EXCEPT
                 ![c] = [userId |-> d.userId, roomId |-> d.roomId, userName |-> d.userName]]
          /\ registry' = IF ok THEN Stored(registry, c, RegistryValue(c, d)) ELSE registry
          /\ join' = [join EXCEPT ![c] = [IdleJoin EXCEPT !.pc = "store", !.userId = d.userId,
                                             !.roomId = d.roomId, !.userName = d.userName]]
          /\ budget' = [budget EXCEPT !.ops = @ + 1, !.failures = @ + Cost(ok)]
          /\ UNCHANGED emitted
  /\ stats' = Observe(stats, registry')
  /\ UNCHANGED <<connected, rooms, subscribedRooms, listeners, backendSubs, inbox, send, disc,
                 pubLog, subscribeCalls, deliveries, seq>>

\* `socket.emit("joined_room", ...)` then `await redisManager.getRoomStats(roomId)`
JoinConfirm_NoAck(c) ==
  \E ok \in Outcomes :
    /\ emitted' = emitted
    /\ join' = [join EXCEPT ![c].pc = "scan", ![c].scan = ScanStart(ok)]
    /\ budget' = [budget EXCEPT !.failures = @ + Cost(ok)]
JoinConfirm(c) ==
  \E ok \in Outcomes :
    /\ emitted' = Emit(emitted, {c}, JoinedRoomEvent(c, join[c].roomId))
    /\ join' = [join EXCEPT ![c].pc = "scan", ![c].scan = ScanStart(ok)]
    /\ budget' = [budget EXCEPT !.failures = @ + Cost(ok)]

\* after storeConnection: socket.join(roomId); then either subscribeToRoom up
\* to `await this.subscriber.subscribe(channel)`, or straight to the confirmation
JoinStored(c) ==
  LET s == ServerOf(c)
      roomId == join[c].roomId
  IN  /\ join[c].pc = "store"
      /\ rooms' = [rooms EXCEPT ![c] = @ \cup {roomId}]
      /\ IF roomId \notin subscribedRooms[s]
         THEN \E ok \in Outcomes :
              /\ listeners' = [listeners EXCEPT
                     ![s] = IF NeedsListener(s) THEN Append(@, "callback") ELSE @]
              /\ backendSubs' = IF ok THEN [backendSubs EXCEPT ![s] = @ \cup {ChannelOf(roomId)}]
                                ELSE backendSubs
              /\ subscribeCalls' = [subscribeCalls EXCEPT ![s][ChannelOf(roomId)] = @ + 1]
              /\ join' = [join EXCEPT ![c].pc = "subscribe"]
              /\ budget' = [budget EXCEPT !.failures = @ + Cost(ok)]
              /\ UNCHANGED emitted
         ELSE /\ JoinConfirm(c)
              /\ UNCHANGED <<listeners, backendSubs, subscribeCalls>>
      /\ UNCHANGED <<stats, connected, activeConnections, subscribedRooms, registry, inbox, send, disc,
                     pubLog, deliveries, seq>>

\* after subscribeToRoom (its result is not looked at): subscribedRooms.add
JoinSubscribed(c) ==
  /\ join[c].pc = "subscribe"
  /\ subscribedRooms' = [subscribedRooms EXCEPT ![ServerOf(c)] = @ \cup {join[c].roomId}]
  /\ JoinConfirm(c)
  /\ UNCHANGED <<stats, connected, rooms, activeConnections, listeners, backendSubs, registry, inbox,
                 send, disc, pubLog, subscribeCalls, deliveries, seq>>

\* roomStats returned; `await redisManager.publishToRoom(roomId, joinMessage)`
JoinPublishJoined(c) ==
  LET message == Envelope(c, "user_joined", join[c])
  IN  /\ join[c].pc = "scan"
      /\ ScanDone(join[c].scan)
      /\ \E ok \in Outcomes :
           /\ inbox' = PublishToRoom(inbox, join[c].roomId, message, ok)
           /\ pubLog' = Logged(message, ok)
           /\ budget' = [budget EXCEPT !.failures = @ + Cost(ok)]
      /\ seq' = [seq EXCEPT ![c] = @ + 1]
      /\ join' = [join EXCEPT ![c].pc = "pubJoined"]
      /\ UNCHANGED <<stats, connected, rooms, activeConnections, subscribedRooms, listeners,
                     backendSubs, registry, send, disc, emitted, subscribeCalls, deliveries>>

\* `await redisManager.publishToRoom(roomId, roomInfoMessage)`; the handler
\* has nothing left to do when this call returns
JoinPublishInfo(c) ==
  LET message == [Envelope(c, "room_info", join[c]) EXCEPT
                     !.userId = "", !.userName = "", !.userCount = UserCountOf(join[c].scan)]
  IN  /\ join[c].pc = "pubJoined"
      /\ \E ok \in Outcomes :
           /\ inbox' = PublishToRoom(inbox, join[c].roomId, message, ok)
           /\ pubLog' = LoggedWith(message, ok, join[c].scan.failed)
           /\ budget' = [budget EXCEPT !.failures = @ + Cost(ok)]
      /\ seq' = [seq EXCEPT ![c] = @ + 1]
      /\ join' = [join EXCEPT ![c] = IdleJoin]
      /\ UNCHANGED <<stats, connected, rooms, activeConnections, subscribedRooms, listeners,
                     backendSubs, registry, send, disc, emitted, subscribeCalls, deliveries>>


\* --------------------------------------------------------- send_message
\* `if (!content || content.trim().length === 0)`
ContentRejected_NoTrim(content) == content = <<>>
ContentRejected(content) == content = <<>> \/ Len(Trim(content)) = 0

\* `const { content, type = "text" } = messageData`
TypeOf(d) == IF d.type = NoType THEN "text" ELSE d.type

\* the message object built by send_message (id: uuid, here socket and seq)
ChatMessage(c, d) ==
  [Envelope(c, TypeOf(d), activeConnections[c]) EXCEPT
      !.content = Trim(d.content), !.timestamp = "ISO"]

\* send_message up to `await redisManager.publishToRoom(...)`
SendMessage(c, d) ==
  /\ connected[c]
  /\ send[c].pc = "idle"
  /\ budget.ops < MaxOps
  /\ IF activeConnections[c] = NoConn
     THEN /\ emitted' = Emit(emitted, {c}, ErrorEvent("User not connected to any room"))
          /\ budget' = [budget EXCEPT !.ops = @ + 1]
          /\ UNCHANGED <<inbox, pubLog, send, seq>>
     ELSE IF ContentRejected(d.content)
     THEN /\ emitted' = Emit(emitted, {c}, ErrorEvent("Message content cannot be empty"))
          /\ budget' = [budget EXCEPT !.ops = @ + 1]
          /\ UNCHANGED <<inbox, pubLog, send, seq>>
     ELSE \E ok \in Outcomes :
          /\ inbox' = PublishToRoom(inbox, activeConnections[c].roomId, ChatMessage(c, d), ok)
          /\ pubLog' = Logged(ChatMessage(c, d), ok)
          /\ send' = [send EXCEPT ![c] = [pc |-> "publish", message |-> ChatMessage(c, d),
                                             published |-> ok]]
          /\ seq' = [seq EXCEPT ![c] = @ + 1]
          /\ budget' = [budget EXCEPT !.ops = @ + 1, !.failures = @ + Cost(ok)]
          /\ UNCHANGED emitted
  /\ UNCHANGED <<stats, connected, rooms, activeConnections, subscribedRooms, listeners, backendSubs,
                 registry, join, disc, subscribeCalls, deliveries>>

\* `if (!published) { socket.emit("error", ...); return; }`
LocalEcho_Always(published) == TRUE
LocalEcho(published) == published

\* after publishToRoom: error to the sender, or io.to(roomId).emit("new_message")
SendPublished(c) ==
  LET message == send[c].message
  IN  /\ send[c].pc = "publish"
      /\ emitted' =
           IF LocalEcho(send[c].published)
           THEN Emit(emitted, RoomMembers(ServerOf(c), message.roomId),
                     NewMessageEvent(message.roomId, message))
           ELSE Emit(emitted, {c}, ErrorEvent("Failed to send message"))
      /\ send' = [send EXCEPT ![c] = IdleSend]
      /\ UNCHANGED <<stats, connected, rooms, activeConnections, subscribedRooms, listeners,
                     backendSubs, registry, inbox, join, disc, pubLog, subscribeCalls,
                     deliveries, seq, budget>>

\* ------------------------------------------------- typing_start / typing_stop
\* publishes a user_typing envelope; nothing follows the await but a log line
Typing(c, isTyping) ==
  LET message == [Envelope(c, "user_typing", activeConnections[c]) EXCEPT !.isTyping = isTyping]
  IN  /\ connected[c]
      /\ budget.ops < MaxOps
      /\ IF activeConnections[c] # NoConn
         THEN \E ok \in Outcomes :
              /\ inbox' = PublishToRoom(inbox, activeConnections[c].roomId, message, ok)
              /\ pubLog' = Logged(message, ok)
              /\ seq' = [seq EXCEPT ![c] = @ + 1]
              /\ budget' = [budget EXCEPT !.ops = @ + 1, !.failures = @ + Cost(ok)]
         ELSE /\ budget' = [budget EXCEPT !.ops = @ + 1]
              /\ UNCHANGED <<inbox, pubLog, seq>>
      /\ UNCHANGED <<stats, connected, rooms, activeConnections, subscribedRooms, listeners,
                     backendSubs, registry, join, send, disc, emitted, subscribeCalls,
                     deliveries>>

\* ------------------------------------------------------------ disconnect
\* the socket closes (it leaves its rooms), then the disconnect handler runs
\* up to `await redisManager.removeConnection(socket.id)`
Disconnect(c) ==
  /\ connected[c]
  /\ budget.ops < MaxOps
  /\ connected' = [connected EXCEPT ![c] = FALSE]
  /\ rooms' = [rooms EXCEPT ![c] = {}]
  /\ IF activeConnections[c] # NoConn
     THEN \E ok \in Outcomes :
          /\ activeConnections' = [activeConnections EXCEPT ![c] = NoConn]
          /\ registry' = IF ok THEN [registry EXCEPT ![c] = NoValue] ELSE registry
          /\ disc' = [disc EXCEPT ![c] = [IdleDisc EXCEPT !.pc = "remove",
                                             !.userId = activeConnections[c].userId,
                                             !.roomId = activeConnections[c].roomId,
                                             !.userName = activeConnections[c].userName]]
          /\ budget' = [budget EXCEPT !.ops = @ + 1, !.failures = @ + Cost(ok)]
     ELSE /\ budget' = [budget EXCEPT !.ops = @ + 1]
          /\ UNCHANGED <<activeConnections, registry, disc>>
  /\ stats' = Observe(stats, registry')
  /\ UNCHANGED <<subscribedRooms, listeners, backendSubs, inbox, join, send, emitted, pubLog,
                 subscribeCalls, deliveries, seq>>

\* `await redisManager.publishToRoom(roomId, leaveMessage)`
DiscPublishLeft(c) ==
  LET message == Envelope(c, "user_left", disc[c])
  IN  /\ disc[c].pc = "remove"
      /\ \E ok \in Outcomes :
           /\ inbox' = PublishToRoom(inbox, disc[c].roomId, message, ok)
           /\ pubLog' = Logged(message, ok)
           /\ budget' = [budget EXCEPT !.failures = @ + Cost(ok)]
      /\ seq' = [seq EXCEPT ![c] = @ + 1]
      /\ disc' = [disc EXCEPT ![c].pc = "pubLeft"]
      /\ UNCHANGED <<stats, connected, rooms, activeConnections, subscribedRooms, listeners,
                     backendSubs, registry, join, send, emitted, subscribeCalls, deliveries>>

\* `await redisManager.getRoomStats(roomId)`
DiscStats(c) ==
  /\ disc[c].pc = "pubLeft"
  /\ \E ok \in Outcomes :
       /\ disc' = [disc EXCEPT ![c].pc = "scan", ![c].scan = ScanStart(ok)]
       /\ budget' = [budget EXCEPT !.failures = @ + Cost(ok)]
  /\ UNCHANGED <<stats, connected, rooms, activeConnections, subscribedRooms, listeners, backendSubs,
                 registry, inbox, join, send, emitted, pubLog, subscribeCalls, deliveries, seq>>

\* `await redisManager.publishToRoom(roomId, roomInfoMessage)`
DiscPublishInfo(c) ==
  LET message == [Envelope(c, "room_info", disc[c]) EXCEPT
                     !.userId = "", !.userName = "", !.userCount = UserCountOf(disc[c].scan)]
  IN  /\ disc[c].pc = "scan"
      /\ ScanDone(disc[c].scan)
      /\ \E ok \in Outcomes :
           /\ inbox' = PublishToRoom(inbox, disc[c].roomId, message, ok)
           /\ pubLog' = LoggedWith(message, ok, disc[c].scan.failed)
           /\ budget' = [budget EXCEPT !.failures = @ + Cost(ok)]
      /\ seq' = [seq EXCEPT ![c] = @ + 1]
      /\ disc' = [disc EXCEPT ![c] = IdleDisc]
      /\ UNCHANGED <<stats, connected, rooms, activeConnections, subscribedRooms, listeners,
                     backendSubs, registry, join, send, emitted, subscribeCalls, deliveries>>

\* ------------------------------------------------------------------ relay
\* `if (data.serverId === SERVER_ID) return;`
SelfOrigin(s, data) == data.serverId = SERVER_ID(s)

\* `switch (data.type)`: the event emitted with io.to(roomId)
RelayEvent(roomId, data) ==
  CASE data.type = "user_joined" ->
         [ev |-> "user_joined", room |-> roomId, text |-> "",
          data |-> [NoEnvelope EXCEPT !.userId = data.userId, !.userName = data.userName,
                                      !.roomId = data.roomId, !.timestamp = data.timestamp,
                                      !.sock = data.sock, !.seq = data.seq]]
    [] data.type = "user_left" ->
         [ev |-> "user_left", room |-> roomId, text |-> "",
          data |-> [NoEnvelope EXCEPT !.userId = data.userId, !.userName = data.userName,
                                      !.roomId = data.roomId, !.timestamp = data.timestamp,
                                      !.sock = data.sock, !.seq = data.seq]]
    [] data.type = "room_info" ->
         [ev |-> "room_info", room |-> roomId, text |-> "",
          data |-> [NoEnvelope EXCEPT !.roomId = data.roomId, !.userCount = data.userCount,
                                      !.timestamp = data.timestamp,
                                      !.sock = data.sock, !.seq = data.seq]]
    [] data.type = "user_typing" ->
         [ev |-> "user_typing", room |-> roomId, text |-> "",
          data |-> [NoEnvelope EXCEPT !.userId = data.userId, !.userName = data.userName,
                                      !.isTyping = data.isTyping,
                                      !.sock = data.sock, !.seq = data.seq]]
    [] OTHER -> NewMessageEvent(roomId, data)

\* the relay listener of setupRedisMessageHandler, run on one channel message
RelayListener(s, em, m) ==
  IF SelfOrigin(s, m.message) THEN em
  ELSE Emit(em, RoomMembers(s, RoomOfChannel(m.channel)),
            RelayEvent(RoomOfChannel(m.channel), m.message))

\* every "message" listener of the subscriber connection runs, in order; the
\* listener that subscribeToRoom would attach only calls the empty callback
RECURSIVE RunListeners(_, _, _, _)
RunListeners(s, ls, em, m) ==
  IF ls = <<>> THEN em
  ELSE RunListeners(s, Tail(ls),
                    IF Head(ls) = "relay" THEN RelayListener(s, em, m) ELSE em, m)

\* the subscriber connection of server s emits "message"
Deliver(s) ==
  /\ inbox[s] # <<>>
  /\ inbox' = [inbox EXCEPT ![s] = Tail(@)]
  /\ emitted' = RunListeners(s, listeners[s], emitted, Head(inbox[s]))
  /\ deliveries' = [deliveries EXCEPT ![s] = @ \cup
        {[channel |-> Head(inbox[s]).channel,
          calls |-> subscribeCalls[s][Head(inbox[s]).channel],
          handlers |-> Len(listeners[s])]}]
  /\ UNCHANGED <<stats, connected, rooms, activeConnections, subscribedRooms, listeners, backendSubs,
                 registry, join, send, disc, pubLog, subscribeCalls, seq, budget>>

Next ==
  \/ \E c \in Sockets : \E d \in JoinInputs(c) : JoinRoom(c, d)
  \/ \E c \in Sockets : JoinStored(c)
  \/ \E c \in Sockets : JoinSubscribed(c)
  \/ \E c \in Sockets, h \in {"join", "disc"} : StatsGet(c, h)
  \/ \E c \in Sockets, h \in {"join", "disc"} : StatsDel(c, h)
  \/ \E k \in Sockets : Expire(k)
  \/ \E c \in Sockets : JoinPublishJoined(c)
  \/ \E c \in Sockets : JoinPublishInfo(c)
  \/ \E c \in Sockets, d \in SendInputs : SendMessage(c, d)
  \/ \E c \in Sockets : SendPublished(c)
  \/ \E c \in Sockets, isTyping \in BOOLEAN : Typing(c, isTyping)
  \/ \E c \in Sockets : Disconnect(c)
  \/ \E c \in Sockets : DiscPublishLeft(c)
  \/ \E c \in Sockets : DiscStats(c)
  \/ \E c \in Sockets : DiscPublishInfo(c)
  \/ \E s \in Servers : Deliver(s)

Spec == Init /\ [][Next]_vars

\* ----------------------------------------------- a room already populated
\* The state Spec reaches when a1 and then b1 have joined room r, each join
\* having run to its end with every backend call succeeding and every
\* channel message handed over: the starting point for runs about chat.
SettledInfo(c, r) == [userId |-> UserOf(c), roomId |-> r, userName |-> "n"]
SettledJoined(c, r) ==
  [NoEnvelope EXCEPT !.type = "user_joined", !.userId = UserOf(c), !.userName = "n",
                     !.roomId = r, !.serverId = SERVER_ID(ServerOf(c)), !.sock = c,
                     !.seq = 1, !.timestamp = "Date"]
SettledInfoMsg(c, r, n) ==
  [NoEnvelope EXCEPT !.type = "room_info", !.roomId = r, !.userCount = n,
                     !.serverId = SERVER_ID(ServerOf(c)), !.sock = c,
                     !.seq = 2, !.timestamp = "Date"]
\* what alpha's relay listener handed to a1 for the two envelopes of b1's join
SettledRelayed(r) ==
  IF RoomOfChannel(ChannelOf(r)) = r
  THEN SetToBag({RelayEvent(r, JsonRoundTrip(SettledJoined("b1", r))),
                 RelayEvent(r, JsonRoundTrip(SettledInfoMsg("b1", r, 2)))})
  ELSE EmptyBag

Settled(r) ==
  /\ connected = [c \in Sockets |-> TRUE]
  /\ rooms = [c \in Sockets |-> IF c = "a2" THEN {} ELSE {r}]
  /\ activeConnections = [c \in Sockets |-> IF c = "a2" THEN NoConn ELSE SettledInfo(c, r)]
  /\ subscribedRooms = [s \in Servers |-> {r}]
  /\ listeners = [s \in Servers |-> <<"relay">>]
  /\ backendSubs = [s \in Servers |-> {ChannelOf(r)}]
  /\ registry = [c \in Sockets |->
                   IF c = "a2" THEN NoValue ELSE RegistryValue(c, SettledInfo(c, r))]
  /\ inbox = [s \in Servers |-> <<>>]
  /\ join = [c \in Sockets |-> IdleJoin]
  /\ send = [c \in Sockets |-> IdleSend]
  /\ disc = [c \in Sockets |-> IdleDisc]
  /\ stats = [q \in Requests |-> IdleStats]
  /\ emitted = [c \in Sockets |->
                  CASE c = "a1" -> SetToBag({JoinedRoomEvent("a1", r)}) (+) SettledRelayed(r)
                    [] c = "b1" -> SetToBag({JoinedRoomEvent("b1", r)})
                    [] OTHER -> EmptyBag]
  /\ pubLog = {[envelope |-> SettledJoined("a1", r), ok |-> TRUE, audience |-> {"a1"},
                statsFailed |-> FALSE],
               [envelope |-> SettledInfoMsg("a1", r, 1), ok |-> TRUE, audience |-> {"a1"},
                statsFailed |-> FALSE],
               [envelope |-> SettledJoined("b1", r), ok |-> TRUE, audience |-> {"a1", "b1"},
                statsFailed |-> FALSE],
               [envelope |-> SettledInfoMsg("b1", r, 2), ok |-> TRUE,
                audience |-> {"a1", "b1"}, statsFailed |-> FALSE]}
  /\ subscribeCalls = [s \in Servers |-> [ch \in Channels |-> IF ch = ChannelOf(r) THEN 1 ELSE 0]]
  /\ deliveries = [s \in Servers |-> {[channel |-> ChannelOf(r), calls |-> 1, handlers |-> 1]}]
  /\ seq = [c \in Sockets |-> IF c = "a2" THEN 0 ELSE 2]

InitChat ==
  /\ \E r \in Rooms : Settled(r)
  /\ budget = [ops |-> 0, failures |-> 0]

SpecChat == InitChat /\ [][Next]_vars

\* ------------------------------------------- room statistics on their own
\* getRoomStats as a function of what the registry holds: the registry starts
\* with any mix of absent keys, entries written by storeConnection (left by
\* this or another server process) and values that do not parse, and only
\* GET /rooms/:roomId/stats requests are served.
EntryInputs(k) ==
  {NoValue, CorruptValue}
    \cup {RegistryValue(k, [userId |-> UserOf(k), roomId |-> r, userName |-> "n"]) : r \in Rooms}

InitStats ==
  /\ registry \in [Sockets -> UNION {EntryInputs(k) : k \in Sockets}]
  /\ \A k \in Sockets : registry[k] \in EntryInputs(k)
  /\ connected = [c \in Sockets |-> TRUE]
  /\ rooms = [c \in Sockets |-> {}]
  /\ activeConnections = [c \in Sockets |-> NoConn]
  /\ subscribedRooms = [s \in Servers |-> {}]
  /\ listeners = [s \in Servers |-> <<"relay">>]
  /\ backendSubs = [s \in Servers |-> {}]
  /\ inbox = [s \in Servers |-> <<>>]
  /\ join = [c \in Sockets |-> IdleJoin]
  /\ send = [c \in Sockets |-> IdleSend]
  /\ disc = [c \in Sockets |-> IdleDisc]
  /\ stats = [q \in Requests |-> IdleStats]
  /\ emitted = [c \in Sockets |-> EmptyBag]
  /\ pubLog = {}
  /\ subscribeCalls = [s \in Servers |-> [ch \in Channels |-> 0]]
  /\ deliveries = [s \in Servers |-> {}]
  /\ seq = [c \in Sockets |-> 0]
  /\ budget = [ops |-> 0, failures |-> 0]

NextStats ==
  \/ \E q \in Requests, roomId \in Rooms : StatsRequest(q, roomId)
  \/ \E q \in Requests : StatsGet(q, "http")
  \/ \E q \in Requests : StatsDel(q, "http")
  \/ \E q \in Requests : StatsRespond(q)

SpecStats == InitStats /\ [][NextStats]_vars

\* ------------------------------------- room statistics against membership
\* GET /rooms/:roomId/stats requests served while the sockets of a populated
\* room join, change room and leave, with a backend that answers every
\* command (the failure bound is used up from the start). Only the steps
\* that write the registry are taken from the socket handlers: the store of
\* join_room and the removal of disconnect. What the handlers do after that
\* write (subscribe, publish, their own getRoomStats) only reads the
\* registry when no command fails and every value parses, and for the same
\* reason the inner catch of getRoomStats is never entered.
InitRace ==
  /\ \E r \in Rooms : Settled(r)
  /\ budget = [ops |-> 0, failures |-> MaxFailures]

NextRace ==
  \/ \E q \in Requests, roomId \in Rooms : StatsRequest(q, roomId)
  \/ \E q \in Requests : StatsGet(q, "http")
  \/ \E q \in Requests : StatsRespond(q)
  \/ \E c \in Sockets : \E d \in JoinInputs(c) : JoinRoom(c, d)
  \/ \E c \in Sockets : Disconnect(c)

SpecRace == InitRace /\ [][NextRace]_vars


\* ================================================================ claims
\* No handler is suspended and no channel message is in flight.
Quiescent ==
  /\ \A s \in Servers : inbox[s] = <<>>
  /\ \A c \in Sockets : join[c].pc = "idle" /\ send[c].pc = "idle" /\ disc[c].pc = "idle"

\* The subscriber connection of s hands its oldest pending message to the listeners.
Receives(s) == inbox[s] # <<>> /\ inbox'[s] = Tail(inbox[s])

\* The client event the relay table prescribes for an envelope type.
EventName(type) ==
  IF type \in {"user_joined", "user_left", "room_info", "user_typing"} THEN type
  ELSE "new_message"

\* Events in a bag that carry the envelope created as number n by socket c.
EventsAbout(bag, c, n) ==
  BagCardinality([e \in {x \in BagToSet(bag) : x.data.sock = c /\ x.data.seq = n /\ x.ev # "joined_room"}
                    |-> bag[e]])

IsChat(envelope) == envelope.content # <<>>

\* C1: an envelope received back by the server that published it adds no
\* event for any client; received by any other server it adds exactly one
\* event of the corresponding kind for each local client in the envelope's
\* room, and nothing for anyone else.
C1_NoEchoRelayOnce ==
  [][\A s \in Servers :
       Receives(s) =>
         LET envelope == Head(inbox[s]).message
         IN  IF envelope.serverId = SERVER_ID(s)
             THEN emitted' = emitted
             ELSE \A c \in Sockets :
                    IF c \in RoomMembers(s, envelope.roomId)
                    THEN /\ BagCardinality(emitted'[c]) = BagCardinality(emitted[c]) + 1
                         /\ EventsAbout(emitted'[c], envelope.sock, envelope.seq)
                              = EventsAbout(emitted[c], envelope.sock, envelope.seq) + 1
                         /\ \E e \in BagToSet(emitted'[c]) :
                              /\ e.ev = EventName(envelope.type)
                              /\ emitted'[c] = emitted[c] (+) SetToBag({e})
                    ELSE emitted'[c] = emitted[c]]_vars

\* new_message events in a bag that carry the message created as number n by socket c
NewMessages(bag, c, n) ==
  BagCardinality([e \in {x \in BagToSet(bag) : x.ev = "new_message" /\ x.data.sock = c /\ x.data.seq = n}
                    |-> bag[e]])

\* C2: when a client A sends a non-empty message whose publish succeeds
\* while A and a client B on another server are both confirmed members of
\* the room, then, once every handler has run and every channel message has
\* been handed over, B (still connected) holds exactly one new_message
\* event for it, and so does every confirmed member on A's own server.
C2_CrossServerDelivery ==
  Quiescent =>
    \A p \in pubLog :
      (IsChat(p.envelope) /\ p.ok /\ p.envelope.sock \in p.audience) =>
        \A c \in p.audience :
          connected[c] => NewMessages(emitted[c], p.envelope.sock, p.envelope.seq) = 1

\* C3: every user_joined envelope a join handler has tried to publish was
\* preceded by the joined_room confirmation of that join, whatever the
\* results of the stats scan and of the publishes: per socket and room the
\* confirmations emitted are the joins that reached the stats scan.
JoinsBroadcast(c, roomId) ==
  Cardinality({p \in pubLog : /\ p.envelope.type = "user_joined" /\ ~IsChat(p.envelope)
                              /\ p.envelope.sock = c /\ p.envelope.roomId = roomId})
C3_AckBeforeBroadcast ==
  \A c \in Sockets, roomId \in Rooms :
    CopiesIn(JoinedRoomEvent(c, roomId), emitted[c])
      = JoinsBroadcast(c, roomId)
        + (IF join[c].pc = "scan" /\ join[c].roomId = roomId THEN 1 ELSE 0)
\* a join whose stats scan failed and whose user_joined publish failed, confirmed
C3_Witness ==
  \E p \in pubLog :
    /\ p.envelope.type = "user_joined" /\ ~IsChat(p.envelope) /\ ~p.ok
    /\ Acked(p.envelope.sock, p.envelope.roomId)

\* C4: once subscribe has been called twice or more for a room's channel on
\* a process, each message received on that channel runs exactly one
\* message listener there, and no client is handed the same relayed event twice.
C4_OneHandlerPerEnvelope ==
  /\ \A s \in Servers : \A d \in deliveries[s] : d.calls >= 2 => d.handlers = 1
  /\ \A c \in Sockets : \A e \in BagToSet(emitted[c]) :
       e.ev \notin {"error", "joined_room"} => CopiesIn(e, emitted[c]) = 1
C4_Witness ==
  \E s \in Servers : \E d \in deliveries[s] : d.calls >= 2

\* C5: the backend subscribe call is issued at most once per room channel
\* on one process.
C5_SubscribeOnce ==
  \A s \in Servers : \A ch \in Channels : subscribeCalls[s][ch] <= 1

\* C6: a server that has confirmed a join for a room is subscribed to the
\* room's channel on the backend, and a room is in subscribedRooms only if
\* the backend subscription exists.
C6_SubscribedWhenConfirmed ==
  /\ \A c \in Sockets, roomId \in Rooms :
       Acked(c, roomId) => ChannelOf(roomId) \in backendSubs[ServerOf(c)]
  /\ \A s \in Servers : \A roomId \in subscribedRooms[s] :
       ChannelOf(roomId) \in backendSubs[s]

\* C7: for every envelope published successfully, each confirmed member of
\* its room on the originating server has been handed the event once the
\* publishing handler is through.
C7_OriginNotifiesLocally ==
  Quiescent =>
    \A p \in pubLog :
      p.ok => \A c \in p.audience :
                ServerOf(c) = ServerOf(p.envelope.sock)
                  => EventsAbout(emitted[c], p.envelope.sock, p.envelope.seq) >= 1

\* C8: a send_message whose content is empty or only whitespace hands an
\* error event to the sender and does nothing else: nothing is published,
\* nobody gets a new_message, and the connection map, the registry and
\* subscribedRooms stay as they are.
Blank(content) == \A i \in 1..Len(content) : content[i] = " "
C8_BlankSendRejected ==
  [][\A c \in Sockets, d \in SendInputs :
       (Blank(d.content) /\ SendMessage(c, d)) =>
         /\ \E e \in BagToSet(emitted'[c]) :
              e.ev = "error" /\ emitted' = Emit(emitted, {c}, e)
         /\ UNCHANGED <<pubLog, inbox, seq, send, activeConnections, registry, subscribedRooms,
                        rooms, backendSubs>>]_vars
C8_Witness ==
  \E c \in Sockets :
    CopiesIn(ErrorEvent("Message content cannot be empty"), emitted[c]) >= 1

\* C9: a join_room lacking userId, roomId or userName hands an error event
\* to the requester and changes nothing: no ConnectionInfo, no registry
\* entry, no room membership, no subscription, no envelope.
LacksField(d) == d.userId = "" \/ d.roomId = Missing \/ d.userName = ""
C9_InvalidJoinRejected ==
  [][\A c \in Sockets : \A d \in JoinInputs(c) :
       (LacksField(d) /\ JoinRoom(c, d)) =>
         /\ \E e \in BagToSet(emitted'[c]) :
              e.ev = "error" /\ emitted' = Emit(emitted, {c}, e)
         /\ UNCHANGED <<activeConnections, registry, rooms, subscribedRooms, backendSubs,
                        subscribeCalls, listeners, pubLog, inbox, join, seq>>]_vars
C9_Witness ==
  \E c \in Sockets :
    /\ CopiesIn(ErrorEvent("Missing required fields"), emitted[c]) >= 1
    /\ activeConnections[c] = NoConn

\* C10: a chat message whose publish failed is handed to no client at all,
\* and its sender gets one error event for it when the handler resumes.
FailedSends(c) ==
  Cardinality({p \in pubLog : IsChat(p.envelope) /\ ~p.ok /\ p.envelope.sock = c})
C10_FailedSendNoEcho ==
  /\ \A p \in pubLog :
       (IsChat(p.envelope) /\ ~p.ok) =>
         \A c \in Sockets : EventsAbout(emitted[c], p.envelope.sock, p.envelope.seq) = 0
  /\ \A c \in Sockets :
       CopiesIn(ErrorEvent("Failed to send message"), emitted[c])
         = FailedSends(c) - (IF send[c].pc = "publish" /\ ~send[c].published THEN 1 ELSE 0)
C10_Witness ==
  \E p \in pubLog :
    /\ IsChat(p.envelope) /\ ~p.ok
    /\ p.audience # {}
    /\ CopiesIn(ErrorEvent("Failed to send message"), emitted[p.envelope.sock]) >= 1

\* C11: a chat message whose publish failed is still handed, as a
\* new_message event, to the confirmed room members on the sender's server
\* once the handler has resumed, and the sender holds the error event.
C11_FailedSendStillEchoes ==
  \A p \in pubLog :
    (/\ IsChat(p.envelope) /\ ~p.ok
     /\ ~(send[p.envelope.sock].pc = "publish" /\ send[p.envelope.sock].message = p.envelope)) =>
      /\ CopiesIn(ErrorEvent("Failed to send message"), emitted[p.envelope.sock]) >= 1
      /\ \A c \in p.audience :
           (connected[c] /\ ServerOf(c) = ServerOf(p.envelope.sock)) =>
             NewMessages(emitted[c], p.envelope.sock, p.envelope.seq) >= 1

\* C12: a send_message, typing or disconnect event of a socket that has no
\* entry in activeConnections changes nothing on the server and at the
\* backend: no envelope is published and no client is handed any event.
HasNoRecord(c) == activeConnections[c] = NoConn
C12_UnknownConnectionNoOp ==
  [][\A c \in Sockets :
       (/\ HasNoRecord(c)
        /\ \/ \E d \in SendInputs : SendMessage(c, d)
           \/ \E isTyping \in BOOLEAN : Typing(c, isTyping)
           \/ Disconnect(c)) =>
         UNCHANGED <<emitted, pubLog, inbox, seq, activeConnections, registry, subscribedRooms,
                     backendSubs, send, disc, join>>]_vars

\* A request has been answered and no backend command has failed in the run.
Answered(q) == stats[q].pc = "done" /\ budget.failures = 0
\* Keys whose value parses and names the room.
EntriesOf(roomId) ==
  {k \in Sockets : registry[k].present /\ registry[k].parses /\ registry[k].roomId = roomId}
\* One roster item per userId, from the first entry of the room met in the
\* order the keys were visited.
RECURSIVE FirstEntries(_, _, _)
FirstEntries(order, roomId, seen) ==
  IF order = <<>> THEN <<>>
  ELSE IF Head(order) \in EntriesOf(roomId) /\ registry[Head(order)].userId \notin seen
  THEN <<[userId |-> registry[Head(order)].userId, userName |-> registry[Head(order)].userName,
          serverId |-> registry[Head(order)].serverId,
          joinedAt |-> registry[Head(order)].timestamp]>>
         \o FirstEntries(Tail(order), roomId, seen \cup {registry[Head(order)].userId})
  ELSE FirstEntries(Tail(order), roomId, seen)

\* C13: the stats returned for room R have userCount equal to the number of
\* distinct userIds among the registry entries that parse and name R, and a
\* roster with one item per such userId, taken from the first such entry in
\* the order the scan visited the keys.
C13_StatsCountDistinctUsers ==
  \A q \in Requests :
    Answered(q) =>
      /\ UserCountOf(stats[q].scan)
           = Cardinality({registry[k].userId : k \in EntriesOf(stats[q].roomId)})
      /\ RosterOf(stats[q].scan) = FirstEntries(stats[q].scan.order, stats[q].roomId, {})
      /\ Len(RosterOf(stats[q].scan)) = UserCountOf(stats[q].scan)
\* two entries of one user in the room and an entry of another room: count 1
C13_Witness ==
  \E q \in Requests :
    /\ Answered(q)
    /\ Cardinality(EntriesOf(stats[q].roomId)) = 2
    /\ UserCountOf(stats[q].scan) = 1
    /\ \E r \in Rooms : r # stats[q].roomId /\ EntriesOf(r) # {}

\* C14: when a scan has returned, no value that fails to parse is left in
\* the registry, the scan has visited every key it listed (it did not stop at
\* the corrupt one), and the users of all entries of the room are counted,
\* those visited after a corrupt entry included.
C14_CorruptEntriesHealed ==
  \A q \in Requests :
    Answered(q) =>
      /\ \A k \in Sockets : registry[k].present => registry[k].parses
      /\ ~stats[q].scan.failed /\ stats[q].scan.todo = {}
      /\ \A k \in EntriesOf(stats[q].roomId) :
           /\ \E i \in 1..Len(stats[q].scan.order) : stats[q].scan.order[i] = k
           /\ registry[k].userId \in stats[q].scan.userIds
\* a scan that met a corrupt entry (gone now) and, later, an entry of the room
C14_Witness ==
  \E q \in Requests :
    /\ Answered(q)
    /\ \E i, j \in 1..Len(stats[q].scan.order) :
         /\ i < j
         /\ ~registry[stats[q].scan.order[i]].present
         /\ stats[q].scan.order[j] \in EntriesOf(stats[q].roomId)
    /\ UserCountOf(stats[q].scan) >= 1

\* Two answered requests for the same room.
SameRoomAnswered(q1, q2) ==
  /\ q1 # q2 /\ Answered(q1) /\ Answered(q2)
  /\ stats[q1].roomId = stats[q2].roomId
RosterUsers(sc) == {RosterOf(sc)[i].userId : i \in 1..Len(RosterOf(sc))}

SameStats(q1, q2) ==
  /\ UserCountOf(stats[q1].scan) = UserCountOf(stats[q2].scan)
  /\ RosterOf(stats[q1].scan) = RosterOf(stats[q2].scan)
SameStatsUpToOrder(q1, q2) ==
  /\ UserCountOf(stats[q1].scan) = UserCountOf(stats[q2].scan)
  /\ RosterUsers(stats[q1].scan) = RosterUsers(stats[q2].scan)
  /\ \A q \in {q1, q2} :
       RosterOf(stats[q].scan) = FirstEntries(stats[q].scan.order, stats[q].roomId, {})

\* C15 as stated: two calls for the same room, with no join, leave or
\* expiry in between, return the same userCount and the same roster, and once
\* one call has returned no later step changes the registry.
C15_StatsIdempotent ==
  [][/\ \A q1, q2 \in Requests : (SameRoomAnswered(q1, q2) => SameStats(q1, q2))'
     /\ (\E q \in Requests : Answered(q)) => registry' = registry]_vars

\* What does hold of two calls for the same room (C15 without the order of
\* the roster): the same userCount and rosters naming the same users, each
\* roster built from the first entries in the order its own scan visited the
\* keys; once one call has returned no later step changes the registry.
C15_StatsIdempotentUpToOrder ==
  [][/\ \A q1, q2 \in Requests : (SameRoomAnswered(q1, q2) => SameStatsUpToOrder(q1, q2))'
     /\ (\E q \in Requests : Answered(q)) => registry' = registry]_vars
\* two answered calls for a room with two users, after a corrupt entry was removed
C15_Witness ==
  \E q1, q2 \in Requests :
    /\ SameRoomAnswered(q1, q2)
    /\ UserCountOf(stats[q1].scan) = 2
    /\ \E i \in 1..Len(stats[q1].scan.order) : ~registry[stats[q1].scan.order[i]].present

\* A step lets the getRoomStats call of caller (c, h) take key k into account:
\* the call starts and lists k, or it visits k and counts its entry.
TakesIntoAccount(c, h, k) ==
  \/ /\ Caller(c, h).pc # "scan" /\ (Caller(c, h).pc = "scan")'
     /\ (k \in Caller(c, h).scan.todo)'
  \/ /\ Caller(c, h).pc = "scan" /\ (Caller(c, h).pc = "scan")'
     /\ k \in Caller(c, h).scan.todo /\ (k \notin Caller(c, h).scan.todo)'
     /\ \/ (Caller(c, h).scan.userCount)' # Caller(c, h).scan.userCount
        \/ (Caller(c, h).scan.users)' # Caller(c, h).scan.users

\* C16: every entry in the registry carries the fixed expiry of 3600
\* seconds, and from the moment the expiry of a key has elapsed, until the
\* key is written again, no getRoomStats call lists the key or counts its
\* entry.
C16_ExpiredEntryAbsent ==
  [][/\ \A k \in Sockets : (registry[k].present => registry[k].ttl = TTL)'
     /\ \A k \in Sockets :
          registry[k].expired =>
            \A caller \in Callers : ~TakesIntoAccount(caller[1], caller[2], k)]_vars
\* the only entry has expired; the scan of the join that wrote it, started
\* afterwards, lists no key and the room_info count is 0
C16_Witness ==
  \E c \in Sockets :
    /\ registry[c].expired /\ budget.failures = 0
    /\ join[c].pc = "pubJoined"
    /\ join[c].scan.order = <<>> /\ UserCountOf(join[c].scan) = 0

\* C17: when the disconnect handler publishes user_left, the socket's entry
\* is gone from activeConnections and from the registry, and the scan whose
\* count goes into the room_info envelope that follows did not list the
\* socket's key.
Visited(sc, k) == \E i \in 1..Len(sc.order) : sc.order[i] = k
C17_RemovedBeforeUserLeft ==
  [][\A c \in Sockets :
       /\ DiscPublishLeft(c) => (activeConnections[c] = NoConn /\ ~registry[c].present)
       /\ DiscPublishInfo(c) => ~Visited(disc[c].scan, c)]_vars

\* The result getRoomStats returns when it gives up: no users.
EmptyStats(sc) == UserCountOf(sc) = 0 /\ RosterOf(sc) = <<>>

\* C18: a backend command that fails is turned into the failure value of
\* the call it belongs to: a getRoomStats call in which a command failed
\* answers with the empty stats.
C18_FailuresBecomeFailureValues ==
  \A q \in Requests :
    (stats[q].pc = "done" /\ stats[q].scan.faults > 0) => EmptyStats(stats[q].scan)

\* C19: when every handler has run to its end, no backend command has
\* failed and no key has expired, the registry holds, for each socket that
\* has joined and not disconnected, exactly the value its own (last) join
\* wrote, and nothing for any other socket, whatever the interleaving of the
\* join and disconnect handlers of the different sockets was.
C19_DistinctKeysNeverConflict ==
  (Quiescent /\ budget.failures = 0 /\ \A k \in Sockets : ~registry[k].expired) =>
    \A c \in Sockets :
      registry[c] = IF activeConnections[c] # NoConn
                    THEN RegistryValue(c, activeConnections[c])
                    ELSE NoValue
\* a2 joined while b1's disconnect handler was running: a2 was confirmed
\* before b1's user_left was published, and b1 was gone before a2's room_info
C19_Witness ==
  /\ Quiescent /\ budget.failures = 0
  /\ activeConnections["a2"] # NoConn /\ ~connected["b1"]
  /\ registry["a1"].present /\ registry["a2"].present /\ ~registry["b1"].present
  /\ \E p \in pubLog : p.envelope.type = "user_left" /\ p.envelope.sock = "b1"
                       /\ "a2" \in p.audience
  /\ \E p \in pubLog : p.envelope.type = "room_info" /\ p.envelope.sock = "a2"
                       /\ "b1" \notin p.audience /\ "a1" \in p.audience

\* C20: whatever type the client supplied, an event a client is handed for
\* a chat message is a new_message event carrying the message as published,
\* never a user_joined, user_left, room_info or user_typing event.
C20_ChatRelayedAsNewMessage ==
  \A p \in pubLog :
    IsChat(p.envelope) =>
      \A c \in Sockets : \A e \in BagToSet(emitted[c]) :
        (e.ev # "joined_room" /\ e.data.sock = p.envelope.sock /\ e.data.seq = p.envelope.seq) =>
          /\ e.ev = "new_message"
          /\ e.data \in {p.envelope, JsonRoundTrip(p.envelope)}

\* C21: a socket whose join_room handler has run to its end is a member of
\* one room only, the room named by its activeConnections entry and by its
\* registry entry, so it is handed the events of that room and of no other.
C21_OneRoomPerConnection ==
  \A c \in Sockets :
    (connected[c] /\ join[c].pc = "idle" /\ activeConnections[c] # NoConn) =>
      /\ rooms[c] = {activeConnections[c].roomId}
      /\ registry[c].present => registry[c].roomId = activeConnections[c].roomId

\* C22: the serverId in a registry entry written by storeConnection is the
\* SERVER_ID of the process that accepted the socket, the id that process
\* puts on its envelopes and compares in its self-origin filter.
C22_StoredServerIdIsOrigin ==
  \A c \in Sockets :
    (registry[c].present /\ registry[c].parses) =>
      registry[c].serverId = SERVER_ID(ServerOf(c))

\* Envelopes of a type published (or tried) by the handlers of socket c.
Published(c, type) ==
  {p \in pubLog : p.envelope.sock = c /\ p.envelope.type = type /\ ~IsChat(p.envelope)}

\* C26: for every socket, each user_left envelope was published after a
\* user_joined envelope of that socket, and no user_joined envelope of the
\* socket is published after its user_left (envelopes of one socket are
\* numbered in the order they are published).
C26_UserLeftAfterUserJoined ==
  \A c \in Sockets : \A pl \in Published(c, "user_left") :
    /\ \E pj \in Published(c, "user_joined") : pj.envelope.seq < pl.envelope.seq
    /\ \A pj \in Published(c, "user_joined") : pj.envelope.seq < pl.envelope.seq

\* C27: every open socket that has an activeConnections entry has an entry
\* in the registry.
C27_LocalEntryHasRegistryEntry ==
  \A c \in Sockets :
    (connected[c] /\ activeConnections[c] # NoConn) => registry[c].present

\* C23: when a join handler publishes its room_info envelope, the
\* user_joined envelope of that join has been published before it, and
\* the count in the room_info envelope, computed after the join's registry
\* write, is at least 1 whenever the socket is still open.
C23_JoinStatsIncludeJoiner ==
  [][\A c \in Sockets :
       JoinPublishInfo(c) =>
         \E p \in pubLog' :
           /\ p.envelope.type = "room_info" /\ p.envelope.sock = c
           /\ p.envelope.seq = seq[c] + 1
           /\ p.envelope.userCount = UserCountOf(join[c].scan)
           /\ \E pj \in Published(c, "user_joined") :
                pj.envelope.seq <= seq[c] /\ pj.envelope.roomId = join[c].roomId
           /\ connected[c] => p.envelope.userCount >= 1]_vars

\* C24: no client on any server is handed an event made from a room stats
\* recompute that failed, in particular no room_info event whose count is
\* the 0 of the failed call rather than a count of the registry.
C24_FailedRecomputeSilent ==
  \A p \in pubLog :
    p.statsFailed =>
      \A c \in Sockets : EventsAbout(emitted[c], p.envelope.sock, p.envelope.seq) = 0

\* C25: the count a room stats call returns, when none of its backend
\* commands failed, is the number of distinct users the registry held for
\* the room at some one moment between the key listing and the return,
\* whatever joins and disconnects ran in between, and every user that had an
\* entry in the room at all those moments is counted.
C25_StatsAreASnapshot ==
  \A q \in Requests :
    (stats[q].pc = "done" /\ stats[q].scan.faults = 0) =>
      /\ UserCountOf(stats[q].scan) \in stats[q].counts
      /\ stats[q].steady \subseteq stats[q].scan.userIds

====
